---- MODULE Spec2Model ----
(***************************************************************************)
(* A model of wksim: the review-outcome probability model built from the   *)
(* review history (ReviewResultProbability) and the discrete-event         *)
(* simulator (Simulator::new, Simulator::step) of src/src/main.rs, with    *)
(* the stage and SRS tables of src/src/model.rs.                           *)
(***************************************************************************)
EXTENDS Bags, FiniteSets, Integers, Sequences, TLC

VARIABLES
    subjects,            \* the catalog: SubjectID -> Subject (immutable after load)
    stage_counts,        \* ReviewResultProbability::new: the tally matrix [start][end]
    by_prev_stage,       \* ReviewResultProbability.by_prev_stage
    cur_step,            \* Simulator.cur_step
    subject_states,      \* Simulator.subject_states: SubjectID -> SubjectState
    review_queue,        \* Simulator.review_queue: a bag of <<next_review_time, id>>
    cur_level,           \* Simulator.cur_level
    cur_level_subjects,  \* the ids held by Simulator.cur_level_subjects
    cur_level_kanji,     \* the ids held by Simulator.cur_level_kanji
    pc,                  \* position: "idle" between step() calls, "drain", "exit", ...
    review_count,        \* step()'s local review_count
    ret,                 \* the value the last step() call returned
    level_at_call,       \* cur_level as read by the caller before the running step() call
    horizon,             \* the number of step() calls the driver makes
    db_assignments,      \* Database::assignments(): the rows Simulator::new reads
    drawn                \* the last sample_for call: its stage, draw and result

vars == <<subjects, stage_counts, by_prev_stage, cur_step,
          subject_states, review_queue, cur_level, cur_level_subjects,
          cur_level_kanji, pc, review_count, ret, level_at_call, horizon,
          db_assignments, drawn>>

----------------------------------------------------------------------------
(* src/src/model.rs *)

MAX_LEVEL == 60
NUM_STAGES == 10

Initiate == 0
Apprentice1 == 1
Apprentice2 == 2
Apprentice3 == 3
Apprentice4 == 4
Guru1 == 5
Guru2 == 6
Master == 7
Enlightened == 8
Burned == 9

Stage == 0 .. (NUM_STAGES - 1)

Normal == 1
Accelerated == 2

Radical == "radical"
Kanji == "kanji"
Vocabulary == "vocabulary"

\* Option::None of an Option<u32> or Option<Stage>; Some(x) is x itself (x >= 0).
None == -1

\* A mutant: the terminal stage gets an interval like Enlightened's.
HoursBurnedRescheduled(srs, stage) ==
    CASE stage = Initiate -> None
      [] stage = Burned -> 2879
      [] stage = Apprentice1 -> IF srs = Normal THEN 4 ELSE 2
      [] stage = Apprentice2 -> IF srs = Normal THEN 8 ELSE 4
      [] stage = Apprentice3 -> IF srs = Normal THEN 23 ELSE 8
      [] stage = Apprentice4 -> IF srs = Normal THEN 47 ELSE 23
      [] stage = Guru1 -> 167
      [] stage = Guru2 -> 335
      [] stage = Master -> 719
      [] stage = Enlightened -> 2879

\* A mutant: a subject that enters Apprentice1 is due again at once.
HoursApprentice1Immediate(srs, stage) ==
    CASE stage = Initiate -> None
      [] stage = Burned -> None
      [] stage = Apprentice1 -> 0
      [] stage = Apprentice2 -> IF srs = Normal THEN 8 ELSE 4
      [] stage = Apprentice3 -> IF srs = Normal THEN 23 ELSE 8
      [] stage = Apprentice4 -> IF srs = Normal THEN 47 ELSE 23
      [] stage = Guru1 -> 167
      [] stage = Guru2 -> 335
      [] stage = Master -> 719
      [] stage = Enlightened -> 2879

\* Srs::hours_to_next_review
hours_to_next_review(srs, stage) ==
    CASE stage = Initiate -> None
      [] stage = Burned -> None
      [] stage = Apprentice1 -> IF srs = Normal THEN 4 ELSE 2
      [] stage = Apprentice2 -> IF srs = Normal THEN 8 ELSE 4
      [] stage = Apprentice3 -> IF srs = Normal THEN 23 ELSE 8
      [] stage = Apprentice4 -> IF srs = Normal THEN 47 ELSE 23
      [] stage = Guru1 -> 167
      [] stage = Guru2 -> 335
      [] stage = Master -> 719
      [] stage = Enlightened -> 2879

\* Stage::is_passing
is_passing(stage) == stage >= Guru1

----------------------------------------------------------------------------
(* StageProbabilityDistribution, src/src/main.rs *)

RECURSIVE SumWeights(_, _)
SumWeights(stage_probs, i) ==
    IF i > Len(stage_probs) THEN 0
    ELSE stage_probs[i][2] + SumWeights(stage_probs, i + 1)

\* StageProbabilityDistribution::new
DistNew(stage_probs) ==
    [total |-> SumWeights(stage_probs, 1), stage_probs |-> stage_probs]

\* StageProbabilityDistribution::is_empty
is_empty(dist) == dist.total = 0

\* No sample_for call has been made yet.
NoDraw == [prev_stage |-> None, x |-> None, stage |-> None]

\* The scan of StageProbabilityDistribution::sample for the drawn value x.
RECURSIVE SampleScan(_, _, _)
SampleScan(stage_probs, i, x) ==
    IF i > Len(stage_probs) THEN None
    ELSE IF x < stage_probs[i][2] THEN stage_probs[i][1]
    ELSE SampleScan(stage_probs, i + 1, x - stage_probs[i][2])

\* A mutant: the scan forgets to subtract the weights it has passed.
RECURSIVE ScanWithoutSubtract(_, _, _)
ScanWithoutSubtract(stage_probs, i, x) ==
    IF i > Len(stage_probs) THEN None
    ELSE IF x < stage_probs[i][2] THEN stage_probs[i][1]
    ELSE ScanWithoutSubtract(stage_probs, i + 1, x)

SampleWithoutSubtract(dist, x) == ScanWithoutSubtract(dist.stage_probs, 1, x)

\* StageProbabilityDistribution::sample, for the value x drawn from 0..total-1
sample(dist, x) == SampleScan(dist.stage_probs, 1, x)

\* isize::clamp
clamp(v, lo, hi) == IF v < lo THEN lo ELSE IF v > hi THEN hi ELSE v

\* A mutant: the shift clamps one stage too low, so that no shifted end stage
\* is the terminal stage.
ShiftClampBelowBurned(dist, x) ==
    [dist EXCEPT !.stage_probs =
        [i \in DOMAIN dist.stage_probs |->
            <<clamp(dist.stage_probs[i][1] + x, 0, NUM_STAGES - 2),
              dist.stage_probs[i][2]>>]]

\* StageProbabilityDistribution::shift
shift(dist, x) ==
    [dist EXCEPT !.stage_probs =
        [i \in DOMAIN dist.stage_probs |->
            <<clamp(dist.stage_probs[i][1] + x, 0, NUM_STAGES - 1),
              dist.stage_probs[i][2]>>]]

----------------------------------------------------------------------------
(* ReviewResultProbability, src/src/main.rs *)

ZeroCounts == [s \in Stage |-> [e \in Stage |-> 0]]

\* One iteration of the tally loop of ReviewResultProbability::new.
TallyReview(counts, review) ==
    [counts EXCEPT ![review[1]][review[2]] = @ + 1]

RECURSIVE TallyAll(_, _, _)
TallyAll(counts, reviews, i) ==
    IF i > Len(reviews) THEN counts
    ELSE TallyAll(TallyReview(counts, reviews[i]), reviews, i + 1)

\* The filter_map of one tally row: the (end stage, count) pairs with count > 0,
\* in ascending end-stage order.
RECURSIVE RowProbs(_, _)
RowProbs(end_stage_counts, e) ==
    IF e >= NUM_STAGES THEN <<>>
    ELSE IF end_stage_counts[e] > 0
         THEN <<<<e, end_stage_counts[e]>>>> \o RowProbs(end_stage_counts, e + 1)
         ELSE RowProbs(end_stage_counts, e + 1)

TalliedRows(counts) == [s \in Stage |-> DistNew(RowProbs(counts[s], 0))]

\* rposition(|row| !row.is_empty()): None when every row is empty.
LastNonEmptyRow(rows) ==
    IF \A s \in Stage : is_empty(rows[s]) THEN None
    ELSE CHOOSE s \in Stage :
            /\ ~is_empty(rows[s])
            /\ \A s2 \in Stage : s2 > s => is_empty(rows[s2])

\* ReviewResultProbability::new on the tallied matrix.  ok = FALSE is a panic:
\* expect("No reviews at all?") when no row is tallied, and
\* empty_rows.split_last_mut().unwrap() when the last non-empty row is the
\* Burned row (nothing is left after the split).
ReviewResultProbabilityNew(counts) ==
    LET rows == TalliedRows(counts)
        last == LastNonEmptyRow(rows)
    IN  IF last = None \/ last = NUM_STAGES - 1
        THEN [ok |-> FALSE, by_prev_stage |-> rows]
        ELSE [ok |-> TRUE,
              by_prev_stage |->
                [s \in Stage |->
                    IF s > last /\ s < NUM_STAGES - 1
                    THEN shift(rows[last], s - last)
                    ELSE rows[s]]]

----------------------------------------------------------------------------
(* Catalog helpers, src/src/main.rs *)

\* subjects_with_level: the ids of the given level. The Vec the code returns
\* holds them in the iteration order of the catalog HashMap, which is
\* unspecified; the order is drawn where the Vec is walked (IterationOrders).
subjects_with_level(subs, level) ==
    {id \in DOMAIN subs : subs[id].level = level}

\* The filter that keeps the kanji of a subject list.
kanji_of(subs, ids) ==
    {id \in ids : subs[id].kind = Kanji}

\* The orders in which a HashMap may yield the given ids: every one.
IterationOrders(ids) ==
    {f \in [1 .. Cardinality(ids) -> ids] :
        \A i, j \in DOMAIN f : i # j => f[i] # f[j]}

----------------------------------------------------------------------------
(* SubjectState and the review queue, src/src/main.rs *)

\* A mutant: a fresh subject is scheduled for the step after its unlock.
NewlyUnlockedNextStep(cur_time) ==
    [stage |-> Apprentice1, next_review_time |-> cur_time + 1]

\* SubjectState::newly_unlocked
newly_unlocked(cur_time) ==
    [stage |-> Apprentice1, next_review_time |-> cur_time]

\* A mutant: the push is forgotten.
QueuePushDropped(queue, time, id) == queue

\* review_queue.push((Reverse(time), id))
QueuePush(queue, time, id) == queue (+) SetToBag({<<time, id>>})

\* BinaryHeap::peek on (Reverse(time), id): the greatest entry, that is the
\* smallest time and, among equal times, the greatest id.
QueueTop(queue) ==
    CHOOSE e \in BagToSet(queue) :
        \A o \in BagToSet(queue) :
            \/ e[1] < o[1]
            \/ (e[1] = o[1] /\ e[2] >= o[2])

\* A mutant: an entry due exactly at the current step is not yet available.
PeekStrictlyBefore(queue, step) ==
    IF BagToSet(queue) = {} THEN None
    ELSE IF QueueTop(queue)[1] < step THEN QueueTop(queue)[2]
    ELSE None

\* Simulator::peek_available_review
peek_available_review(queue, step) ==
    IF BagToSet(queue) = {} THEN None
    ELSE IF QueueTop(queue)[1] <= step THEN QueueTop(queue)[2]
    ELSE None

\* BinaryHeap::pop
QueuePop(queue) == queue (-) SetToBag({QueueTop(queue)})

----------------------------------------------------------------------------
(* Simulator::new, src/src/main.rs *)

MINUTES_PER_HOUR == 60

Max(S) == CHOOSE x \in S : \A y \in S : y <= x

\* An available_at string of the store, RFC 3339 with whole seconds: the
\* wall-clock time it spells, in minutes, and the UTC offset it ends with, in
\* minutes; offset 0 is spelled "Z".
Timestamp(local, offset) == [local |-> local, offset |-> offset]

\* An available_at that is JSON null: Option::None of next_review_time.
Null == Timestamp(None, None)

\* A timestamp spelled in UTC.
Utc(minute) == Timestamp(minute, 0)

\* DateTime::parse_from_rfc3339(..).into(): the instant, in minutes.
Instant(ts) == ts.local - ts.offset

\* The byte order of two offset suffixes: '+' < '-' < 'Z', and within a sign
\* the digits ascend with the magnitude.
SuffixLess(a, b) ==
    CASE a > 0 /\ b > 0 -> a < b
      [] a > 0 /\ b <= 0 -> TRUE
      [] a < 0 /\ b < 0 -> (0 - a) < (0 - b)
      [] a < 0 /\ b = 0 -> TRUE
      [] OTHER -> FALSE

\* SQLite's comparison of two available_at TEXT values: byte by byte, so the
\* wall-clock digits decide first and the offset suffix last.
TextLess(a, b) ==
    \/ a.local < b.local
    \/ a.local = b.local /\ SuffixLess(a.offset, b.offset)

\* The timestamps of the assignments table.
AvailableAts(assignments) ==
    {assignments[i].available_at : i \in DOMAIN assignments} \ {Null}

\* db.next_review_time() does not return: SQL min() over no value is one NULL
\* row, and as_str() of NULL is an Err that is unwrapped.
NextReviewTimePanics(assignments) == AvailableAts(assignments) = {}

\* db.next_review_time(): SQL min() over the available_at strings, parsed.
MinAvailableAt(assignments) ==
    LET ts == AvailableAts(assignments)
        least == CHOOSE t \in ts : \A u \in ts : u = t \/ TextLess(t, u)
    IN  Instant(least)

\* duration_trunc(Duration::hours(1)) of a time in minutes, for a local time
\* zone a whole number of hours from UTC
TruncToHour(t) == (t \div MINUTES_PER_HOUR) * MINUTES_PER_HOUR

\* Duration::num_hours of a duration in minutes: truncated towards zero.
NumHours(d) ==
    IF d >= 0 THEN d \div MINUTES_PER_HOUR
    ELSE 0 - ((0 - d) \div MINUTES_PER_HOUR)

\* The state Simulator::new gives one assignment.
AssignmentState(a, base_time) ==
    IF a.available_at # Null
    THEN [stage |-> a.stage,
          next_review_time |->
              Max({0, NumHours(Instant(a.available_at) - base_time)})]
    ELSE [stage |-> Apprentice1, next_review_time |-> 0]

\* assert_ne!(stage, Initiate) with a timestamp, assert_eq!(stage, Initiate) without
AssignmentAsserts(a) ==
    IF a.available_at # Null THEN a.stage # Initiate ELSE a.stage = Initiate

\* collect::<HashMap<_, _>>(): the last assignment of a subject wins.
CollectStates(assignments, base_time) ==
    LET ids == {assignments[i].subject_id : i \in DOMAIN assignments}
        lastOf(id) == Max({i \in DOMAIN assignments : assignments[i].subject_id = id})
    IN  [id \in ids |-> AssignmentState(assignments[lastOf(id)], base_time)]

\* The review queue of Simulator::new: one entry per state with Some(time).
InitialQueue(states) ==
    SetToBag({<<states[id].next_review_time, id>> :
                id \in {i \in DOMAIN states : states[i].next_review_time # None}})

\* Simulator::new.  ok = FALSE is a panic: the unwrap inside
\* db.next_review_time(), a failed assert on an assignment, or a catalog lookup
\* that misses. expect("No available reviews") and expect("No unlocked
\* subjects") cannot fail once next_review_time() has returned.
SimulatorNew(subs, assignments) ==
    LET base_time == TruncToHour(MinAvailableAt(assignments))
        states == CollectStates(assignments, base_time)
        ok == /\ ~NextReviewTimePanics(assignments)
              /\ \A i \in DOMAIN assignments : AssignmentAsserts(assignments[i])
              /\ DOMAIN states # {}
              /\ DOMAIN states \subseteq DOMAIN subs
        level == Max({subs[id].level : id \in DOMAIN states})
        level_subjects == subjects_with_level(subs, level)
    IN  IF ~ok THEN [ok |-> FALSE]
        ELSE [ok |-> TRUE,
              subject_states |-> states,
              review_queue |-> InitialQueue(states),
              cur_level |-> level,
              cur_level_subjects |-> level_subjects,
              cur_level_kanji |-> kanji_of(subs, level_subjects)]

----------------------------------------------------------------------------
(* Simulator::step and its helpers, src/src/main.rs *)

\* A mutant: the level of the subject is not looked at.
MayUnlockIgnoresLevel(states, level, subject_id) ==
    \A i \in DOMAIN subjects[subject_id].depends_on :
        subjects[subject_id].depends_on[i] \in DOMAIN states

\* A mutant: the prerequisites are not looked at.
MayUnlockIgnoresPrerequisites(states, level, subject_id) ==
    subjects[subject_id].level <= level

\* Simulator::may_unlock, on the table and the level of the moment
may_unlock(states, level, subject_id) ==
    /\ subjects[subject_id].level <= level
    /\ \A i \in DOMAIN subjects[subject_id].depends_on :
          subjects[subject_id].depends_on[i] \in DOMAIN states

\* HashMap::insert: adds the key, or overwrites its value
Insert(states, id, state) ==
    [x \in (DOMAIN states) \cup {id} |-> IF x = id THEN state ELSE states[x]]

\* The body of both unlock sites: insert a fresh state and queue it for now.
Unlock(sim, id, step) ==
    [subject_states |-> Insert(sim.subject_states, id, newly_unlocked(step)),
     review_queue |-> QueuePush(sim.review_queue, step, id)]

\* The loop over subject.depended_on_by after a subject became passing.
RECURSIVE UnlockDependents(_, _, _, _, _)
UnlockDependents(sim, list, i, level, step) ==
    IF i > Len(list) THEN sim
    ELSE IF list[i] \in DOMAIN sim.subject_states
         THEN UnlockDependents(sim, list, i + 1, level, step)
    ELSE IF may_unlock(sim.subject_states, level, list[i])
         THEN UnlockDependents(Unlock(sim, list[i], step), list, i + 1, level, step)
    ELSE UnlockDependents(sim, list, i + 1, level, step)

\* The loop over cur_level_subjects after a level advance.
RECURSIVE UnlockLevel(_, _, _, _, _)
UnlockLevel(sim, list, i, level, step) ==
    IF i > Len(list) THEN sim
    ELSE IF may_unlock(sim.subject_states, level, list[i])
         THEN UnlockLevel(Unlock(sim, list[i], step), list, i + 1, level, step)
    ELSE UnlockLevel(sim, list, i + 1, level, step)

\* A mutant: every unlocked kanji counts, whatever its stage.
NumUnlockedKanji(kanji, states) ==
    Cardinality({id \in kanji : id \in DOMAIN states})

\* The filter and count of Simulator::passed_current_level
NumPassedKanji(kanji, states) ==
    Cardinality({id \in kanji :
                    id \in DOMAIN states /\ is_passing(states[id].stage)})

\* A mutant: the threshold is compared without the integer division.
PassedExactRatio(kanji, states) ==
    NumPassedKanji(kanji, states) * 10 >= Cardinality(kanji) * 9

\* Simulator::passed_current_level
passed_current_level(kanji, states) ==
    NumPassedKanji(kanji, states) >= (Cardinality(kanji) * 9) \div 10

\* A mutant: the level bound is tested with <=.
BelowMaxLevelInclusive(level) == level <= MAX_LEVEL

\* The first conjunct of the level test in step(): self.cur_level < MAX_LEVEL
below_max_level(level) == level < MAX_LEVEL

\* A mutant: a subject that is retired is dropped from the table.
UpdateStateDropRetired(states, id, stage, time) ==
    IF time = None
    THEN [x \in (DOMAIN states) \ {id} |-> states[x]]
    ELSE [states EXCEPT ![id] = [stage |-> stage, next_review_time |-> time]]

\* A mutant: the sampled stage is not written back.
UpdateStateKeepsStage(states, id, stage, time) ==
    [states EXCEPT ![id].next_review_time = time]

\* The writes to subject_state.stage and subject_state.next_review_time in step()
UpdateState(states, id, stage, time) ==
    [states EXCEPT ![id] = [stage |-> stage, next_review_time |-> time]]

\* The body of the drain loop for the popped subject and the sampled stage:
\* reschedule or retire, then unlock dependents on a non-passing to passing move.
ApplyReview(sim, subject_id, new_stage, level, step) ==
    LET subject == subjects[subject_id]
        old_stage == sim.subject_states[subject_id].stage
        hours == hours_to_next_review(subject.srs, new_stage)
        time == IF hours # None THEN step + hours ELSE None
        sim1 == [subject_states |->
                    UpdateState(sim.subject_states, subject_id, new_stage, time),
                 review_queue |->
                    IF hours # None
                    THEN QueuePush(sim.review_queue, time, subject_id)
                    ELSE sim.review_queue]
    IN  IF ~is_passing(old_stage) /\ is_passing(new_stage)
        THEN UnlockDependents(sim1, subject.depended_on_by, 1, level, step)
        ELSE sim1

\* The test of the outer loop of step(), as a position
AfterPeek(queue, step) ==
    IF peek_available_review(queue, step) # None THEN "drain" ELSE "exit"

\* The driver calls step(): review_count = 0 and the outer loop is tested.
StepEnter ==
    /\ pc = "idle"
    /\ cur_step < horizon
    /\ review_count' = 0
    /\ level_at_call' = cur_level
    /\ pc' = AfterPeek(review_queue, cur_step)
    /\ UNCHANGED <<drawn, db_assignments, subjects, stage_counts,
                   by_prev_stage, cur_step,
                   subject_states, review_queue, cur_level, cur_level_subjects,
                   cur_level_kanji, ret, horizon>>

\* One iteration of the drain loop: pop the due subject, sample its new stage,
\* reschedule or retire it and unlock its dependents.  It panics when the
\* popped subject has no state, when the stage's distribution is empty
\* (gen_range on an empty range), and, in a build with debug assertions, when a
\* stage without an interval is not Burned.
Review ==
    /\ pc = "drain"
    /\ peek_available_review(review_queue, cur_step) # None
    /\ LET subject_id == QueueTop(review_queue)[2]
           popped == [subject_states |-> subject_states,
                      review_queue |-> QueuePop(review_queue)]
       IN  IF subject_id \notin DOMAIN subject_states
           THEN /\ pc' = "panicked"
                /\ review_queue' = popped.review_queue
                /\ UNCHANGED <<subject_states, review_count, drawn>>
           ELSE LET dist == by_prev_stage[subject_states[subject_id].stage]
                IN  IF is_empty(dist)
                    THEN /\ pc' = "panicked"
                         /\ review_queue' = popped.review_queue
                         /\ review_count' = review_count + 1
                         /\ UNCHANGED <<subject_states, drawn>>
                    ELSE \E x \in 0 .. (dist.total - 1) :
                           LET new_stage == sample(dist, x)
                               after == ApplyReview(popped, subject_id, new_stage,
                                                    cur_level, cur_step)
                               unscheduled ==
                                   hours_to_next_review(subjects[subject_id].srs,
                                                        new_stage) = None
                           IN  /\ review_count' = review_count + 1
                               /\ drawn' = [prev_stage |->
                                                subject_states[subject_id].stage,
                                            x |-> x, stage |-> new_stage]
                               /\ \/ /\ unscheduled /\ new_stage # Burned
                                     /\ pc' = "panicked"
                                     /\ review_queue' = popped.review_queue
                                     /\ subject_states' =
                                           [subject_states EXCEPT
                                               ![subject_id].stage = new_stage]
                                  \/ /\ pc' = "drain"
                                     /\ subject_states' = after.subject_states
                                     /\ review_queue' = after.review_queue
    /\ UNCHANGED <<db_assignments, subjects, stage_counts,
                   by_prev_stage, cur_step,
                   cur_level, cur_level_subjects, cur_level_kanji, ret,
                   level_at_call, horizon>>

\* The drain loop found nothing due: the level test, the level advance with its
\* unlock loop, and the test of the outer loop.
LevelCheck ==
    /\ pc = "drain"
    /\ peek_available_review(review_queue, cur_step) = None
    /\ IF below_max_level(cur_level)
          /\ passed_current_level(cur_level_kanji, subject_states)
       THEN LET level == cur_level + 1
                level_subjects == subjects_with_level(subjects, level)
            IN  /\ cur_level' = level
                /\ cur_level_subjects' = level_subjects
                /\ cur_level_kanji' = kanji_of(subjects, level_subjects)
                /\ \E order \in IterationOrders(level_subjects) :
                      LET after == UnlockLevel([subject_states |-> subject_states,
                                                review_queue |-> review_queue],
                                               order, 1, level, cur_step)
                      IN  /\ subject_states' = after.subject_states
                          /\ review_queue' = after.review_queue
       ELSE UNCHANGED <<cur_level, cur_level_subjects, cur_level_kanji,
                        subject_states, review_queue>>
    /\ pc' = AfterPeek(review_queue', cur_step)
    /\ UNCHANGED <<drawn, db_assignments, subjects, stage_counts,
                   by_prev_stage, cur_step,
                   review_count, ret, level_at_call, horizon>>

\* A mutant: step() returns the step counter in place of the review count.
StepReturnsStepCounter ==
    /\ pc = "exit"
    /\ cur_step' = cur_step + 1
    /\ ret' = cur_step'
    /\ pc' = "idle"
    /\ UNCHANGED <<drawn, db_assignments, subjects, stage_counts,
                   by_prev_stage,
                   subject_states, review_queue, cur_level, cur_level_subjects,
                   cur_level_kanji, review_count, level_at_call, horizon>>

\* The outer loop is over: cur_step += 1 and review_count is returned.
StepReturn ==
    /\ pc = "exit"
    /\ cur_step' = cur_step + 1
    /\ ret' = review_count
    /\ pc' = "idle"
    /\ UNCHANGED <<drawn, db_assignments, subjects, stage_counts,
                   by_prev_stage,
                   subject_states, review_queue, cur_level, cur_level_subjects,
                   cur_level_kanji, review_count, level_at_call, horizon>>

Next == StepEnter \/ Review \/ LevelCheck \/ StepReturn

----------------------------------------------------------------------------
(* Inputs: catalogs, assignments and review histories *)

MaxStep == 6
MaxKanji == 20
MaxReviews == 3

Sub(level, kind, depends_on, depended_on_by, srs) ==
    [level |-> level, kind |-> kind, depends_on |-> depends_on,
     depended_on_by |-> depended_on_by, srs |-> srs]

\* An assignment whose available_at is Null or the given timestamp.
AsgAt(subject_id, stage, available_at) ==
    [subject_id |-> subject_id, stage |-> stage, available_at |-> available_at]

\* An assignment whose available_at is Null or spelled in UTC.
Asg(subject_id, stage, minute) ==
    AsgAt(subject_id, stage, IF minute = None THEN Null ELSE Utc(minute))

\* A level-1 kanji with a dependent vocabulary, and the same pair on level 2.
DependentScenario ==
    [subjects |->
        (1 :> Sub(1, Kanji, <<>>, <<2>>, Accelerated)) @@
        (2 :> Sub(1, Vocabulary, <<1>>, <<>>, Accelerated)) @@
        (3 :> Sub(2, Kanji, <<>>, <<4>>, Accelerated)) @@
        (4 :> Sub(2, Vocabulary, <<3>>, <<>>, Accelerated)),
     assignments |-> <<Asg(1, Apprentice4, 95)>>,
     reviews |-> <<<<1, 2>>, <<1, 1>>, <<2, 3>>, <<3, 4>>, <<4, 5>>,
                   <<5, 6>>, <<5, 4>>>>]

\* A radical under review and the only kanji of its level, still locked.
LoneKanjiScenario ==
    [subjects |->
        (1 :> Sub(3, Radical, <<>>, <<2>>, Normal)) @@
        (2 :> Sub(3, Kanji, <<1>>, <<>>, Normal)),
     assignments |-> <<Asg(1, Apprentice2, 30)>>,
     reviews |-> <<<<1, 2>>, <<2, 3>>, <<2, 1>>, <<3, 4>>, <<4, 5>>>>]

\* Ten kanji on level 58, eight of them passing; a lone radical on level 59.
TenKanjiScenario ==
    [subjects |->
        [id \in 1 .. 11 |->
            IF id <= 10 THEN Sub(58, Kanji, <<>>, <<>>, Normal)
            ELSE Sub(59, Radical, <<>>, <<>>, Normal)],
     assignments |->
        [i \in 1 .. 10 |->
            IF i <= 7 THEN Asg(i, Guru1, 6000 + i)
            ELSE IF i = 8 THEN Asg(8, Guru1, 130)
            ELSE IF i = 9 THEN Asg(9, Apprentice4, 125)
            ELSE Asg(10, Apprentice4, 185)],
     reviews |-> <<<<1, 2>>, <<2, 3>>, <<3, 4>>, <<4, 5>>, <<4, 5>>, <<4, 3>>,
                   <<5, 6>>, <<5, 4>>>>]

\* A kanji about to be retired, a radical of its level, and a radical and a
\* vocabulary of the next level.
RetireScenario ==
    [subjects |->
        (1 :> Sub(1, Kanji, <<>>, <<4>>, Accelerated)) @@
        (2 :> Sub(1, Radical, <<>>, <<>>, Accelerated)) @@
        (3 :> Sub(2, Radical, <<>>, <<>>, Accelerated)) @@
        (4 :> Sub(2, Vocabulary, <<1>>, <<>>, Accelerated)),
     assignments |-> <<Asg(1, Enlightened, 61), Asg(2, Initiate, None)>>,
     reviews |-> <<<<1, 2>>, <<2, 3>>, <<2, 1>>, <<8, 9>>, <<8, 9>>, <<8, 7>>>>]

\* A history that starts at Apprentice4: no review of a lower start stage was
\* recorded. A radical about to pass, the kanji of its level that waits for
\* it, a vocabulary of the next level that uses it, and a kanji that also
\* needs a radical which is still locked.
GapHistoryScenario ==
    [subjects |->
        (1 :> Sub(1, Radical, <<>>, <<2, 3, 4>>, Normal)) @@
        (2 :> Sub(1, Kanji, <<1>>, <<>>, Normal)) @@
        (3 :> Sub(2, Vocabulary, <<1>>, <<>>, Normal)) @@
        (4 :> Sub(1, Kanji, <<1, 5>>, <<>>, Normal)) @@
        (5 :> Sub(1, Radical, <<>>, <<4>>, Normal)),
     assignments |-> <<Asg(1, Apprentice4, 45)>>,
     reviews |-> <<<<4, 5>>, <<4, 3>>, <<5, 6>>>>]

\* A history with a review that ended at Initiate.
LapseToInitiateScenario ==
    [subjects |->
        (1 :> Sub(1, Radical, <<>>, <<>>, Normal)) @@
        (2 :> Sub(1, Kanji, <<>>, <<>>, Normal)),
     assignments |-> <<Asg(1, Apprentice1, 20), Asg(2, Apprentice2, 80)>>,
     reviews |-> <<<<1, 0>>, <<1, 2>>, <<2, 3>>, <<2, 0>>, <<3, 4>>>>]

Scenarios ==
    {DependentScenario, LoneKanjiScenario, TenKanjiScenario, RetireScenario,
     GapHistoryScenario, LapseToInitiateScenario}

\* The state after ReviewResultProbability::new, load_subjects and
\* Simulator::new on the given inputs; a panic of either constructor leaves
\* the program at "panicked" with no simulator.
Constructed(subs, assignments, reviews, steps) ==
    LET counts == TallyAll(ZeroCounts, reviews, 1)
        prob == ReviewResultProbabilityNew(counts)
        sim == SimulatorNew(subs, assignments)
        ok == prob.ok /\ sim.ok
    IN  /\ subjects = subs
        /\ stage_counts = counts
        /\ by_prev_stage = prob.by_prev_stage
        /\ cur_step = 0
        /\ subject_states = IF ok THEN sim.subject_states ELSE <<>>
        /\ review_queue = IF ok THEN sim.review_queue ELSE EmptyBag
        /\ cur_level = IF ok THEN sim.cur_level ELSE 0
        /\ cur_level_subjects = IF ok THEN sim.cur_level_subjects ELSE {}
        /\ cur_level_kanji = IF ok THEN sim.cur_level_kanji ELSE {}
        /\ pc = IF ok THEN "idle" ELSE "panicked"
        /\ review_count = 0
        /\ ret = 0
        /\ level_at_call = IF ok THEN sim.cur_level ELSE 0
        /\ horizon = steps
        /\ db_assignments = assignments
        /\ drawn = NoDraw

Init ==
    \E scn \in Scenarios :
        Constructed(scn.subjects, scn.assignments, scn.reviews, MaxStep)

Spec == Init /\ [][Next]_vars

\* The same program, which keeps running: a statement that can execute does.
SpecFair == Init /\ [][Next]_vars /\ WF_vars(Next)

----------------------------------------------------------------------------
(* The level gate on its own: a level of n kanji, k of them passing, j unlocked
   below passing and the rest locked, and a radical due now whose review
   makes step() run the level test. *)

UpHistory ==
    <<<<0, 1>>, <<1, 2>>, <<2, 3>>, <<3, 4>>, <<4, 5>>, <<5, 6>>, <<6, 7>>,
      <<7, 8>>, <<8, 9>>>>

GateInit ==
    \E n \in 0 .. MaxKanji : \E k \in 0 .. n : \E j \in 0 .. (n - k) :
        Constructed(
            [id \in 0 .. n |->
                IF id = 0 THEN Sub(3, Radical, <<>>, <<>>, Normal)
                ELSE Sub(3, Kanji, <<>>, <<>>, Normal)],
            [i \in 1 .. (k + j + 1) |->
                IF i = 1 THEN Asg(0, Apprentice1, 45)
                ELSE IF i - 1 <= k THEN Asg(i - 1, Guru1, 720)
                ELSE Asg(i - 1, Apprentice4, 720)],
            UpHistory,
            1)

SpecGate == GateInit /\ [][Next]_vars

----------------------------------------------------------------------------
(* Simulator::new on the assignments of a snapshot: any stage with or without
   a timestamp, for subjects of the catalog and for one that is missing. *)

MaxAssignments == 2

\* Null, two timestamps spelled in UTC, and one spelled nine hours east of
\* UTC: the earliest instant of the three (minute 50) and the greatest string.
TimestampChoices == {Null, Utc(110), Utc(125), Timestamp(590, 540)}

AssignmentChoices ==
    {AsgAt(id, stage, at) :
        id \in {1, 2, 9},
        stage \in {Initiate, Guru1, Burned},
        at \in TimestampChoices}

\* The assignments table: every row the store holds, a subject may repeat.
AssignmentTables ==
    UNION {[1 .. n -> AssignmentChoices] : n \in 0 .. MaxAssignments}

NewInit ==
    \E t \in AssignmentTables :
        Constructed(
            (1 :> Sub(1, Radical, <<>>, <<>>, Normal)) @@
            (2 :> Sub(2, Kanji, <<>>, <<>>, Normal)),
            t,
            UpHistory,
            2)

SpecNew == NewInit /\ [][Next]_vars

----------------------------------------------------------------------------
(* The single-subject chain: one subject at Apprentice1 due at step 0, every
   stage moving to the next one, stepped for the driver's 365 days of 24 steps. *)

NUM_DAYS == 365
HOURS_PER_DAY == 24

ChainInit ==
    \E srs \in {Normal, Accelerated} : \E kind \in {Radical, Kanji, Vocabulary} :
        Constructed(
            (1 :> Sub(1, kind, <<>>, <<>>, srs)),
            <<Asg(1, Apprentice1, 30)>>,
            UpHistory,
            NUM_DAYS * HOURS_PER_DAY)

\* The driver's loops in main call step() again and again.
SpecChain == ChainInit /\ [][Next]_vars /\ WF_vars(Next)

----------------------------------------------------------------------------
(* ReviewResultProbability::new on its own: the history is tallied one review
   at a time, then the rows are built and extrapolated. *)

\* The reviews a history may hold: any start stage, an end stage one or two
\* stages above or below it, and the failed review that stays at Apprentice1.
ReviewChoices ==
    {r \in Stage \X Stage :
        \/ r[2] - r[1] \in {-2, -1, 1, 2}
        \/ r = <<Apprentice1, Apprentice1>>}

RECURSIVE SumFrom(_, _)
SumFrom(row, e) == IF e >= NUM_STAGES THEN 0 ELSE row[e] + SumFrom(row, e + 1)

RECURSIVE TotalFrom(_, _)
TotalFrom(counts, s) ==
    IF s >= NUM_STAGES THEN 0 ELSE SumFrom(counts[s], 0) + TotalFrom(counts, s + 1)

ProbInit ==
    /\ stage_counts = ZeroCounts
    /\ by_prev_stage = TalliedRows(ZeroCounts)
    /\ pc = "tally"
    /\ subjects = <<>>
    /\ cur_step = 0
    /\ subject_states = <<>>
    /\ review_queue = EmptyBag
    /\ cur_level = 0
    /\ cur_level_subjects = {}
    /\ cur_level_kanji = {}
    /\ review_count = 0
    /\ ret = 0
    /\ level_at_call = 0
    /\ horizon = 0
    /\ db_assignments = <<>>
    /\ drawn = NoDraw

\* The tally loop reads one more review of a history of at most n reviews.
ReadReviewUpTo(n) ==
    /\ pc = "tally"
    /\ TotalFrom(stage_counts, 0) < n
    /\ \E r \in ReviewChoices : stage_counts' = TallyReview(stage_counts, r)
    /\ UNCHANGED <<drawn, db_assignments, subjects, by_prev_stage,
                   cur_step, subject_states,
                   review_queue, cur_level, cur_level_subjects, cur_level_kanji,
                   pc, review_count, ret, level_at_call, horizon>>

\* The history is exhausted: the rows are built and the empty ones filled in.
BuildModel ==
    /\ pc = "tally"
    /\ LET prob == ReviewResultProbabilityNew(stage_counts)
       IN  /\ by_prev_stage' = prob.by_prev_stage
           /\ pc' = IF prob.ok THEN "built" ELSE "panicked"
    /\ UNCHANGED <<drawn, db_assignments, subjects, stage_counts,
                   cur_step, subject_states,
                   review_queue, cur_level, cur_level_subjects, cur_level_kanji,
                   review_count, ret, level_at_call, horizon>>

ReadReview == ReadReviewUpTo(MaxReviews)

NextProb == ReadReview \/ BuildModel

SpecProb == ProbInit /\ [][NextProb]_vars

----------------------------------------------------------------------------
(* sample_for on a built model: every start stage and every value the random
   generator can draw from 0..total. *)

MaxDrawReviews == 2

ReadShortHistory == ReadReviewUpTo(MaxDrawReviews)

\* ReviewResultProbability::sample_for(prev_stage): gen_range panics on the
\* empty range of an empty row.
SampleFor ==
    /\ pc \in {"built", "sampled"}
    /\ \E prev_stage \in Stage :
          LET dist == by_prev_stage[prev_stage]
          IN  IF is_empty(dist)
              THEN pc' = "panicked" /\ UNCHANGED drawn
              ELSE \E x \in 0 .. (dist.total - 1) :
                      /\ drawn' = [prev_stage |-> prev_stage, x |-> x,
                                   stage |-> sample(dist, x)]
                      /\ pc' = "sampled"
    /\ UNCHANGED <<db_assignments, subjects, stage_counts,
                   by_prev_stage, cur_step, subject_states, review_queue,
                   cur_level, cur_level_subjects, cur_level_kanji, review_count,
                   ret, level_at_call, horizon>>

NextDraw == ReadShortHistory \/ BuildModel \/ SampleFor

SpecDraw == ProbInit /\ [][NextDraw]_vars

----------------------------------------------------------------------------
(* Properties of the simulator, checked under Spec *)

Unlocked == DOMAIN subject_states

\* The queue entries of a subject.
EntriesOf(queue, id) == {e \in BagToSet(queue) : e[2] = id}

\* The kanji of a level, and those of them that are unlocked and passing.
KanjiAt(level) ==
    {id \in DOMAIN subjects : subjects[id].kind = Kanji /\ subjects[id].level = level}

PassingKanjiAt(level) ==
    {id \in KanjiAt(level) : id \in Unlocked /\ subject_states[id].stage >= Guru1}

\* The step about to be taken is the level test of step().
AtLevelCheck == pc = "drain" /\ peek_available_review(review_queue, cur_step) = None

\* C1: between step() calls the queue holds exactly one entry (t, s) for every
\* subject s of the table with next_review_time = Some(t), and nothing else.
C1_QueueAgreesWithStates ==
    pc = "idle" =>
        /\ \A e \in BagToSet(review_queue) :
              /\ CopiesIn(e, review_queue) = 1
              /\ e[2] \in Unlocked
              /\ subject_states[e[2]].next_review_time = e[1]
        /\ \A id \in Unlocked :
              subject_states[id].next_review_time # None =>
                  BagIn(<<subject_states[id].next_review_time, id>>, review_queue)

C1_Witness ==
    /\ pc = "idle"
    /\ cur_step > 0
    /\ \E id \in Unlocked : subject_states[id].next_review_time = None
    /\ \E id \in Unlocked :
          /\ subject_states[id].next_review_time > cur_step
          /\ Cardinality(EntriesOf(review_queue, id)) = 1
    /\ Cardinality(Unlocked) >= 3

\* C2: whenever the level advances from L, the passing kanji of L are at least
\* 90% of the kanji of L: passed * 10 >= total * 9.
C2_AdvanceNeedsNinetyPercent ==
    [][cur_level' # cur_level =>
          Cardinality(PassingKanjiAt(cur_level)) * 10
              >= Cardinality(KanjiAt(cur_level)) * 9]_vars

\* The subjects C4 is about: not a kanji, with a single prerequisite that is a
\* kanji of the same level.
DependsOnOneKanji(b) ==
    /\ subjects[b].kind # Kanji
    /\ Len(subjects[b].depends_on) = 1
    /\ subjects[b].depends_on[1] \in DOMAIN subjects
    /\ subjects[subjects[b].depends_on[1]].kind = Kanji
    /\ subjects[subjects[b].depends_on[1]].level = subjects[b].level

\* C4: a subject B whose only prerequisite is a kanji A of its level enters the
\* table only in the step that processes A's move from a non-passing to a
\* passing stage, and is then scheduled for the current step.
C4_DependentWaitsForPass ==
    [][\A b \in DOMAIN subjects :
          (DependsOnOneKanji(b) /\ b \notin Unlocked /\ b \in DOMAIN subject_states') =>
              LET a == subjects[b].depends_on[1]
              IN  /\ a \in Unlocked
                  /\ ~(subject_states[a].stage >= Guru1)
                  /\ subject_states'[a].stage >= Guru1
                  /\ subject_states'[b].next_review_time = cur_step]_vars

\* C5: cur_level never decreases, changes only from L to L + 1, and does not
\* change once it is MAX_LEVEL or more.
C5_LevelStepsByOne ==
    [][\/ cur_level' = cur_level
       \/ (cur_level' = cur_level + 1 /\ cur_level < 60)]_vars

C5_Witness ==
    /\ cur_level = 60
    /\ level_at_call = 60
    /\ pc = "exit"
    /\ review_count > 0
    /\ Cardinality(PassingKanjiAt(60)) * 10 >= Cardinality(KanjiAt(60)) * 9

\* C6: a review that ends in Burned leaves the subject with no next review
\* time and no queue entry, and a subject with no next review time keeps its
\* state and stays out of the queue in every later step.
C6_BurnedIsPermanent ==
    [][\A id \in Unlocked :
          /\ (/\ id \in DOMAIN subject_states'
              /\ subject_states'[id] # subject_states[id]
              /\ subject_states'[id].stage = Burned)
                 => /\ subject_states'[id].next_review_time = None
                    /\ EntriesOf(review_queue', id) = {}
          /\ subject_states[id].next_review_time = None
                 => /\ id \in DOMAIN subject_states'
                    /\ subject_states'[id] = subject_states[id]
                    /\ EntriesOf(review_queue', id) = {}]_vars

C6_Witness ==
    /\ \E id \in Unlocked :
          /\ subject_states[id].stage = Burned
          /\ subject_states[id].next_review_time = None
          /\ subjects[id].level < cur_level
    /\ cur_step >= 2
    /\ pc = "drain"

\* C7: no step removes a subject from the subject-state table.
C7_UnlockMonotonic ==
    [][Unlocked \subseteq DOMAIN subject_states']_vars

C7_Witness ==
    /\ Cardinality(Unlocked) = 4
    /\ \E id \in Unlocked : subject_states[id].stage = Burned
    /\ \E id \in Unlocked : subject_states[id].stage = Apprentice3
    /\ cur_step = horizon

\* The current level has exactly ten kanji and is below the maximum.
TenKanjiLevel == Cardinality(KanjiAt(cur_level)) = 10 /\ cur_level < 60

\* C8 as claimed: with ten kanji on the level, the level test advances exactly
\* when nine are passing, and the call that leaves the ten-kanji level ends with
\* cur_level exactly one above its value at entry.
C8_ExactlyOneAdvancePerCall ==
    [][/\ (TenKanjiLevel /\ cur_level' # cur_level) =>
              /\ Cardinality(PassingKanjiAt(cur_level)) >= 9
              /\ cur_level' = cur_level + 1
       /\ (TenKanjiLevel /\ AtLevelCheck
              /\ Cardinality(PassingKanjiAt(cur_level)) >= 9) =>
              cur_level' = cur_level + 1
       /\ (pc' = "exit" /\ Cardinality(KanjiAt(level_at_call')) = 10
              /\ level_at_call' < 60 /\ cur_level' # level_at_call') =>
              cur_level' = level_at_call' + 1]_vars

\* C8, amended: with ten kanji on the level, the level changes only by a level
\* test that finds nine or more passing, by exactly one at that test, and a
\* level test that finds nine or more passing does advance (in the same call
\* as the drain before it); later tests of the call may advance it again.
C8_AdvanceAtNineOfTen ==
    [][/\ (TenKanjiLevel /\ cur_level' # cur_level) =>
              /\ AtLevelCheck
              /\ Cardinality(PassingKanjiAt(cur_level)) >= 9
              /\ cur_level' = cur_level + 1
       /\ (TenKanjiLevel /\ AtLevelCheck
              /\ Cardinality(PassingKanjiAt(cur_level)) >= 9) =>
              cur_level' = cur_level + 1]_vars

C8_Witness ==
    /\ Cardinality(KanjiAt(level_at_call)) = 10
    /\ Cardinality(PassingKanjiAt(level_at_call)) = 9
    /\ cur_level = level_at_call + 2
    /\ pc = "exit"

----------------------------------------------------------------------------
(* The level gate, checked under SpecGate *)

\* floor(total * 9 / 10): the greatest m with 10 * m <= 9 * total
FloorNineTenths(total) ==
    CHOOSE m \in 0 .. total : 10 * m <= 9 * total /\ 10 * (m + 1) > 9 * total

\* C3: below the maximum level the level test advances the level exactly when
\* the unlocked-and-passing kanji of the level number at least
\* floor(total * 9 / 10): at least 9 of 10, 9 of 11, 18 of 20.
C3_FloorThreshold ==
    [][(AtLevelCheck /\ cur_level < 60) =>
          LET total == Cardinality(KanjiAt(cur_level))
              passed == Cardinality(PassingKanjiAt(cur_level))
              advanced == cur_level' = cur_level + 1
          IN  /\ advanced <=> passed >= FloorNineTenths(total)
              /\ total = 10 => (advanced <=> passed >= 9)
              /\ total = 11 => (advanced <=> passed >= 9)
              /\ total = 20 => (advanced <=> passed >= 18)]_vars

C3_Witness ==
    /\ cur_level = level_at_call + 1
    /\ pc = "exit"
    /\ Cardinality(KanjiAt(level_at_call)) = 11
    /\ Cardinality(PassingKanjiAt(level_at_call)) = 9
    /\ \E id \in KanjiAt(level_at_call) :
          id \in Unlocked /\ subject_states[id].stage = Apprentice4
    /\ \E id \in KanjiAt(level_at_call) : id \notin Unlocked

----------------------------------------------------------------------------
(* The single-subject chain, checked under SpecChain *)

\* The step about to be taken is a review.
ReviewStep == review_count' = review_count + 1

\* C9: every review of the subject raises its stage, the subject reaches
\* Burned, and from then on it has no next review time and no queue entry and
\* every step() call returns 0.
C9_ChainReachesBurned ==
    /\ [][/\ ReviewStep => subject_states'[1].stage > subject_states[1].stage
          /\ ~ReviewStep => subject_states'[1].stage = subject_states[1].stage
          /\ subject_states[1].stage = Burned =>
                /\ subject_states'[1] = [stage |-> Burned, next_review_time |-> None]
                /\ review_queue' = EmptyBag
                /\ pc = "idle" => (pc' = "exit" /\ review_count' = 0)
                /\ pc = "exit" => ret' = review_count]_vars
    /\ <>(subject_states[1].stage = Burned)

C9_Witness ==
    /\ subject_states[1].stage = Burned
    /\ pc = "idle"
    /\ ret = 0
    /\ cur_step = horizon
    /\ review_queue = EmptyBag

----------------------------------------------------------------------------
(* The extrapolation, checked under SpecProb *)

\* The highest start stage with a tallied review.
HighestTallied ==
    Max({s \in Stage : \E e \in Stage : stage_counts[s][e] > 0})

\* The row is the tally of start stage s: every end stage with a non-zero
\* count, in ascending order, weighted by its count.
AsTallied(dist, s) ==
    /\ dist.total = SumFrom(stage_counts[s], 0)
    /\ \A e \in Stage :
          stage_counts[s][e] > 0 <=>
              \E i \in DOMAIN dist.stage_probs :
                  dist.stage_probs[i] = <<e, stage_counts[s][e]>>
    /\ \A i, j \in DOMAIN dist.stage_probs :
          i < j => dist.stage_probs[i][1] < dist.stage_probs[j][1]

\* The row is the base row with every end stage moved up by x, capped at top.
ShiftedCopy(dist, base, x, top) ==
    /\ dist.total = base.total
    /\ Len(dist.stage_probs) = Len(base.stage_probs)
    /\ \A i \in DOMAIN base.stage_probs :
          /\ dist.stage_probs[i][2] = base.stage_probs[i][2]
          /\ dist.stage_probs[i][1] =
                IF base.stage_probs[i][1] + x > top THEN top
                ELSE base.stage_probs[i][1] + x

\* The built model extrapolates with end stages capped at top.
ExtrapolatedWithCap(top) ==
    pc = "built" =>
        \A s \in Stage :
            IF HighestTallied < s /\ s < Burned
            THEN ShiftedCopy(by_prev_stage[s], by_prev_stage[HighestTallied],
                             s - HighestTallied, top)
            ELSE AsTallied(by_prev_stage[s], s)

\* C10 as claimed: the rows above the highest tallied start stage L and below
\* Burned are L's row with end stages shifted by S - L and clamped to [0, 8];
\* the other rows are as tallied.
C10_ShiftClampedToEnlightened == ExtrapolatedWithCap(Enlightened)

\* C10, amended: the shifted end stages are clamped to [0, NUM_STAGES - 1] =
\* [0, 9], so a shifted end stage can be Burned.
C10_ShiftClampedToBurned == ExtrapolatedWithCap(Burned)

C10_Witness ==
    /\ pc = "built"
    /\ HighestTallied <= 6
    /\ Len(by_prev_stage[HighestTallied].stage_probs) = 2
    /\ \E i \in DOMAIN by_prev_stage[HighestTallied].stage_probs :
          by_prev_stage[HighestTallied].stage_probs[i][1] + Enlightened
              - HighestTallied > Burned
    /\ by_prev_stage[Enlightened].stage_probs[2][1] = Burned
    /\ \E s \in Stage : s < HighestTallied /\ ~is_empty(by_prev_stage[s])

----------------------------------------------------------------------------
(* The failures of ReviewResultProbability::new, checked under SpecProb *)

\* C11: ReviewResultProbability::new fails exactly when the history holds no
\* review at all; every non-empty history, a record that starts at Burned
\* included, yields a model.
C11_FailsOnlyOnEmptyHistory ==
    /\ pc = "panicked" => TotalFrom(stage_counts, 0) = 0
    /\ pc = "built" => TotalFrom(stage_counts, 0) > 0

----------------------------------------------------------------------------
(* Sampling, checked under SpecDraw *)

\* The weight a row gives to end stage e, summed over its entries from the
\* i-th on.
RECURSIVE WeightOf(_, _, _)
WeightOf(stage_probs, e, i) ==
    IF i > Len(stage_probs) THEN 0
    ELSE (IF stage_probs[i][1] = e THEN stage_probs[i][2] ELSE 0)
         + WeightOf(stage_probs, e, i + 1)

\* The draws of 0..total-1 for which the row returns end stage e.
DrawsReturning(dist, e) == {x \in 0 .. (dist.total - 1) : sample(dist, x) = e}

\* C12: for a start stage with a non-empty row every draw of sample_for
\* returns Some(stage), the stage is in [0, 9] and carries a non-zero weight in
\* the row, and each end stage is returned for exactly as many of the `total`
\* draws as its weight.
C12_SampleFollowsWeights ==
    /\ pc = "sampled" =>
          /\ drawn.stage # None
          /\ drawn.stage \in 0 .. 9
          /\ WeightOf(by_prev_stage[drawn.prev_stage].stage_probs, drawn.stage, 1) > 0
    /\ pc \in {"built", "sampled"} =>
          \A s \in Stage :
              ~is_empty(by_prev_stage[s]) =>
                  \A e \in Stage :
                      Cardinality(DrawsReturning(by_prev_stage[s], e))
                          = WeightOf(by_prev_stage[s].stage_probs, e, 1)

\* A draw past the first entry's weight returned the second entry of a row of
\* two end stages.
C12_Witness ==
    /\ pc = "sampled"
    /\ Len(by_prev_stage[drawn.prev_stage].stage_probs) = 2
    /\ drawn.x >= by_prev_stage[drawn.prev_stage].stage_probs[1][2]
    /\ drawn.stage = by_prev_stage[drawn.prev_stage].stage_probs[2][1]
    /\ drawn.stage # by_prev_stage[drawn.prev_stage].stage_probs[1][1]

----------------------------------------------------------------------------
(* step(): its counter, its return value and its loops, checked under Spec *)

\* The step pops the head of the queue: one copy of it is gone.
PopsHead ==
    /\ review_queue # EmptyBag
    /\ CopiesIn(QueueTop(review_queue), review_queue')
          < CopiesIn(QueueTop(review_queue), review_queue)

\* C13: every step() call increments cur_step by exactly one, when it returns,
\* and returns the number of reviews (queue pops with a sampled outcome) of
\* all its drain passes: the count starts at 0, grows by one with each pop and
\* with nothing else, and is the value returned.
C13_StepCountsReviews ==
    [][/\ pc = "idle" => review_count' = 0 /\ cur_step' = cur_step /\ ret' = ret
       /\ (pc = "drain" /\ pc' # "panicked") =>
             /\ review_count' = review_count + (IF PopsHead THEN 1 ELSE 0)
             /\ PopsHead => drawn'.prev_stage = subject_states[QueueTop(review_queue)[2]].stage
                            /\ drawn'.stage = subject_states'[QueueTop(review_queue)[2]].stage
             /\ cur_step' = cur_step
             /\ ret' = ret
       /\ pc = "exit" =>
             /\ cur_step' = cur_step + 1
             /\ ret' = review_count
             /\ pc' = "idle"]_vars

\* A call returned 3 reviews made in two drain passes, around a level advance.
C13_Witness ==
    /\ pc = "idle"
    /\ cur_step >= 1
    /\ ret >= 3
    /\ cur_level > level_at_call

\* C14: no unlocked subject is left overdue. When a step() call that processed
\* step t is about to return, every scheduled subject and every queue entry is
\* later than t; between calls they are at cur_step or later. This covers the
\* subjects unlocked during the call by a dependency or by a level advance.
C14_NothingOverdueAtBoundary ==
    /\ pc = "exit" =>
          /\ \A id \in Unlocked :
                subject_states[id].next_review_time # None =>
                    subject_states[id].next_review_time > cur_step
          /\ \A e \in BagToSet(review_queue) : e[1] > cur_step
    /\ pc = "idle" =>
          /\ \A id \in Unlocked :
                subject_states[id].next_review_time # None =>
                    subject_states[id].next_review_time >= cur_step
          /\ \A e \in BagToSet(review_queue) : e[1] >= cur_step

\* A call is about to return after a dependency unlock and a level advance:
\* a subject of a level above the one at entry and a dependent that was locked
\* at entry have both been reviewed and rescheduled.
C14_Witness ==
    /\ pc = "exit"
    /\ cur_level > level_at_call
    /\ \E id \in Unlocked :
          /\ subjects[id].level > level_at_call
          /\ subject_states[id].next_review_time # None
    /\ \E id \in Unlocked :
          /\ subjects[id].level = level_at_call
          /\ subjects[id].depends_on # <<>>
          /\ subject_states[id].next_review_time # None
          /\ id \notin {db_assignments[i].subject_id : i \in DOMAIN db_assignments}

\* The lists the unlock loop of the step may have walked: at a level advance
\* the new level's subjects in an order that gives the step's outcome, at a
\* review the reviewed subject's dependents.
UnlockLists ==
    IF AtLevelCheck
    THEN {order \in IterationOrders(cur_level_subjects') :
             UnlockLevel([subject_states |-> subject_states,
                          review_queue |-> review_queue],
                         order, 1, cur_level', cur_step).subject_states
                 = subject_states'}
    ELSE {subjects[QueueTop(review_queue)[2]].depended_on_by}

\* a comes before b in list.
Before(list, a, b) ==
    \E i, j \in DOMAIN list : i < j /\ list[i] = a /\ list[j] = b

\* C15: every subject added to the subject-state table during stepping, by a
\* dependency unlock or by a level advance, has at the moment it is added a
\* level <= cur_level and every subject of its depends_on list in the table:
\* there before the loop, or added by an earlier iteration of it. The stage of
\* the prerequisite does not matter.
C15_UnlockNeedsLevelAndPrerequisites ==
    [][\/ Unlocked' = Unlocked
       \/ \E list \in UnlockLists :
             \A b \in Unlocked' \ Unlocked :
                /\ subjects[b].level <= cur_level'
                /\ \A i \in DOMAIN subjects[b].depends_on :
                      \/ subjects[b].depends_on[i] \in Unlocked
                      \/ /\ subjects[b].depends_on[i] \in Unlocked'
                         /\ Before(list, subjects[b].depends_on[i], b)]_vars

\* A level advance has just added a subject together with its prerequisite,
\* which is not yet passing.
C15_Witness ==
    /\ pc = "drain"
    /\ \E b \in Unlocked :
          /\ subject_states[b] = newly_unlocked(cur_step)
          /\ subjects[b].level > level_at_call
          /\ subjects[b].depends_on # <<>>
          /\ \A i \in DOMAIN subjects[b].depends_on :
                subject_states[subjects[b].depends_on[i]] = newly_unlocked(cur_step)

\* C16: a subject unlocked during the step() call processing step t is created
\* with stage Apprentice1 and next_review_time = Some(t) and is queued once at
\* t, and the call goes on draining: it does not leave its loop, and cur_step
\* is not incremented, while an entry at t or earlier is queued, so the
\* subject gets its first review within that call.
C16_UnlockedIsReviewedInSameCall ==
    [][/\ \A b \in Unlocked' \ Unlocked :
             /\ subject_states'[b] =
                   [stage |-> Apprentice1, next_review_time |-> cur_step]
             /\ CopiesIn(<<cur_step, b>>, review_queue') = 1
             /\ EntriesOf(review_queue', b) = {<<cur_step, b>>}
             /\ pc' = "drain"
             /\ cur_step' = cur_step
       /\ (pc' = "exit" \/ cur_step' # cur_step) =>
             /\ \A e \in BagToSet(review_queue') : e[1] > cur_step
             /\ \A b \in Unlocked' :
                   subject_states'[b].next_review_time # cur_step]_vars

\* The first call is about to return: a subject it unlocked has had its first
\* review and is scheduled for a later step.
C16_Witness ==
    /\ pc = "exit"
    /\ cur_step = 0
    /\ \E b \in Unlocked :
          /\ b \notin {db_assignments[i].subject_id : i \in DOMAIN db_assignments}
          /\ subject_states[b].stage > Apprentice1
          /\ subject_states[b].next_review_time > cur_step

\* C17: sampling exhaustion never occurs. For a model built from a non-empty
\* history, the stage of every subject that step() is about to review has a
\* non-empty distribution, so sample_for never draws from an empty range, and
\* no sample returns None.
C17_NoSamplingExhaustion ==
    /\ (pc = "drain" /\ peek_available_review(review_queue, cur_step) # None
           /\ QueueTop(review_queue)[2] \in Unlocked) =>
          ~is_empty(by_prev_stage[subject_states[QueueTop(review_queue)[2]].stage])
    /\ drawn.stage = None => drawn = NoDraw

----------------------------------------------------------------------------
(* Simulator::new, checked under SpecNew *)

\* Simulator::new has returned and step() has not been called yet.
JustConstructed == pc = "idle" /\ cur_step = 0 /\ ret = 0 /\ drawn = NoDraw

\* A constructor panicked: there is no simulator.
NewFailed == pc = "panicked" /\ subject_states = <<>>

\* The instants of the timestamps of the assignments table, in minutes.
AssignedInstants ==
    {Instant(db_assignments[i].available_at) :
        i \in {k \in DOMAIN db_assignments : db_assignments[k].available_at # Null}}

\* The hour-truncated earliest instant of the assignments table, in minutes.
EarliestBaseTime ==
    LET earliest == CHOOSE t \in AssignedInstants : \A u \in AssignedInstants : t <= u
    IN  earliest - (earliest % MINUTES_PER_HOUR)

\* Every assignment without a timestamp became (Apprentice1, Some(0)) queued at
\* step 0; every assignment with one kept its stage, at its whole hours from
\* the hour-truncated earliest timestamp.
AssignmentsConverted ==
    \A i \in DOMAIN db_assignments :
        LET a == db_assignments[i]
            state == subject_states[a.subject_id]
        IN  /\ a.subject_id \in Unlocked
            /\ IF a.available_at = Null
               THEN /\ state = [stage |-> Apprentice1, next_review_time |-> 0]
                    /\ CopiesIn(<<0, a.subject_id>>, review_queue) = 1
               ELSE /\ state.stage = a.stage
                    /\ state.next_review_time >= 0
                    /\ state.next_review_time * MINUTES_PER_HOUR
                          <= Instant(a.available_at) - EarliestBaseTime
                    /\ Instant(a.available_at) - EarliestBaseTime
                          < (state.next_review_time + 1) * MINUTES_PER_HOUR
                    /\ CopiesIn(<<state.next_review_time, a.subject_id>>,
                                review_queue) = 1

NoTimestampAtAll ==
    \A i \in DOMAIN db_assignments : db_assignments[i].available_at = Null

\* C18: Simulator::new converts every assignment, whatever stage an
\* assignment without a timestamp records, a timestamp giving the whole hours
\* from the hour-truncated earliest timestamp, and fails only when there is no
\* assignment or no minimum timestamp.
C18_NewConvertsWhateverStage ==
    /\ NewFailed => NoTimestampAtAll
    /\ JustConstructed => AssignmentsConverted

----------------------------------------------------------------------------
(* Termination of step(), checked under SpecFair *)

\* C19: every step() call terminates, for every catalog and every sequence of
\* sampled outcomes: a call that is in its loops leaves them (it returns, or
\* it aborts in a panic), and it reviews no more subjects than the catalog
\* holds, however unlocks and level advances cascade.
C19_StepTerminates ==
    /\ [](review_count <= Cardinality(DOMAIN subjects))
    /\ (pc = "drain") ~> (pc = "idle" \/ pc = "panicked")

\* A call has gone through two level advances and the reviews of the subjects
\* they and a dependency unlocked, and is about to return.
C19_Witness ==
    /\ pc = "exit"
    /\ cur_level >= level_at_call + 2
    /\ review_count >= 4

\* C20: whenever a review yields a stage for which the subject's SRS variant
\* has no interval, that stage is Burned, so the debug assertion of the
\* "Burned!" branch holds; and every subject with next_review_time = None has
\* stage Burned.
C20_UnscheduledIsBurned ==
    /\ drawn # NoDraw =>
          \A srs \in {Normal, Accelerated} :
              hours_to_next_review(srs, drawn.stage) = None => drawn.stage = Burned
    /\ \A id \in Unlocked :
          subject_states[id].next_review_time = None =>
              subject_states[id].stage = Burned

----------------------------------------------------------------------------
(* The level-advance unlock loop, checked under Spec *)

\* The number of queue entries of a subject, copies counted.
QueuedCopies(queue, id) ==
    BagCardinality([e \in EntriesOf(queue, id) |-> CopiesIn(e, queue)])

\* C21: every subject in the subject-state table has level <= cur_level; so a
\* level advance, whose loop inserts without looking whether the subject is
\* already unlocked, leaves the state and the queue entries of every subject
\* that was unlocked before it untouched, and no subject is queued twice.
C21_AdvanceNeverOverwrites ==
    /\ [](\A id \in Unlocked :
             /\ subjects[id].level <= cur_level
             /\ QueuedCopies(review_queue, id) <= 1)
    /\ [][cur_level' # cur_level =>
             \A id \in Unlocked :
                 /\ subjects[id].level < cur_level'
                 /\ subject_states'[id] = subject_states[id]
                 /\ QueuedCopies(review_queue', id) = QueuedCopies(review_queue, id)]_vars

\* A level advance has just added a subject of the new level next to a
\* subject of an earlier level that is scheduled and queued once.
C21_Witness ==
    /\ pc = "drain"
    /\ cur_level > level_at_call
    /\ \E b \in Unlocked :
          /\ subjects[b].level = cur_level
          /\ subject_states[b] = newly_unlocked(cur_step)
    /\ \E a \in Unlocked :
          /\ subjects[a].level < cur_level
          /\ subject_states[a].next_review_time # None
          /\ QueuedCopies(review_queue, a) = 1

\* C22: the set of subjects a level advance unlocks is determined by the
\* engine state alone: walking the new level's subjects in any other order,
\* from the same state, unlocks the same set, whether a prerequisite of the
\* same level comes before or after its dependent.
C22_AdvanceUnlockIgnoresOrder ==
    [][cur_level' # cur_level =>
          \A order \in IterationOrders(cur_level_subjects') :
              DOMAIN UnlockLevel([subject_states |-> subject_states,
                                  review_queue |-> review_queue],
                                 order, 1, cur_level', cur_step).subject_states
                  = Unlocked']_vars

====
